---- MODULE Spec2Model ----
(***************************************************************************)
(* Frankfurter MCP server: the tool-call handler (index.ts, the second     *)
(* half of src/src/services/frankfurter-client.ts as listed), the HTTP     *)
(* adapter (makeApiRequest / handleApiError), the formatter and the        *)
(* truncation policy (src/src/services/formatter.ts).                      *)
(*                                                                         *)
(* Texts are TLA+ strings; Len, \o and SubSeq act on them character by     *)
(* character, as String.length, + and substring do on ASCII text.          *)
(* JavaScript numbers are modelled as exact decimals m / 10^e (the model   *)
(* does not reproduce binary floating-point rounding).                     *)
(***************************************************************************)
EXTENDS Integers, Sequences, FiniteSets, TLC

VARIABLES
    pc,        \* "idle" | "awaiting" (suspended at axios.get) | "done" (response ready)
    now,       \* the clock read by new Date(): [date: "YYYY-MM-DD" (UTC), ms: ms of the day]
    request,   \* the tool call being served: [name, args], or NoRequest
    upstream,  \* the HTTP requests issued for the current call, in order
    reply,     \* what axios.get settled with for the current call, or NoReply
    outcome,   \* how the handler body ended before the catch clause, or NoOutcome
    response,  \* the envelope returned to the protocol layer, or NoResponse
    probe      \* applications of the pure functions (truncateIfNeeded, handleApiError)

vars == <<pc, now, request, upstream, reply, outcome, response, probe>>

(***************************************************************************)
(* constants.ts                                                            *)
(***************************************************************************)
CHARACTER_LIMIT == 25000

JSON == "json"

MARKDOWN == "markdown"

ResponseFormat == {JSON, MARKDOWN}

(***************************************************************************)
(* Text helpers: what the JavaScript string primitives used by the code do *)
(***************************************************************************)
Digits == <<"0", "1", "2", "3", "4", "5", "6", "7", "8", "9">>

DigitChars == {Digits[i] : i \in 1..10}

CharAt(s, i) == SubSeq(s, i, i)

DigitVal(c) == (CHOOSE i \in 1..10 : Digits[i] = c) - 1

\* String(n) for a natural number n
RECURSIVE NatStr(_)
NatStr(n) ==
    IF n < 10 THEN Digits[n + 1] ELSE NatStr(n \div 10) \o Digits[(n % 10) + 1]

\* n written with exactly w digits (w >= number of digits of n)
RECURSIVE PadNat(_, _)
PadNat(n, w) ==
    IF w = 0 THEN "" ELSE PadNat(n \div 10, w - 1) \o Digits[(n % 10) + 1]

RECURSIVE Pow10(_)
Pow10(e) == IF e = 0 THEN 1 ELSE 10 * Pow10(e - 1)

\* s repeated n times (String.prototype.repeat), built by doubling
RECURSIVE Repeat(_, _)
Repeat(s, n) ==
    IF n = 0 THEN ""
    ELSE IF n = 1 THEN s
    ELSE LET h == Repeat(s, n \div 2)
         IN  IF n % 2 = 0 THEN h \o h ELSE h \o h \o s

\* Array.prototype.join over the texts f[lo..hi]; the loop's left-to-right
\* concatenation, evaluated by halves (concatenation is associative)
RECURSIVE JoinRange(_, _, _, _)
JoinRange(f, lo, hi, sep) ==
    IF lo > hi THEN ""
    ELSE IF lo = hi THEN f[lo]
    ELSE LET mid == (lo + hi) \div 2
         IN  JoinRange(f, lo, mid, sep) \o sep \o JoinRange(f, mid + 1, hi, sep)

Join(f, sep) == JoinRange(f, 1, Len(f), sep)

LowerLetters ==
    <<"a", "b", "c", "d", "e", "f", "g", "h", "i", "j", "k", "l", "m",
      "n", "o", "p", "q", "r", "s", "t", "u", "v", "w", "x", "y", "z">>

UpperLetters ==
    <<"A", "B", "C", "D", "E", "F", "G", "H", "I", "J", "K", "L", "M",
      "N", "O", "P", "Q", "R", "S", "T", "U", "V", "W", "X", "Y", "Z">>

UpperChar(c) ==
    IF \E i \in 1..26 : LowerLetters[i] = c
    THEN UpperLetters[CHOOSE i \in 1..26 : LowerLetters[i] = c]
    ELSE c

\* String.prototype.toUpperCase
toUpperCase(s) == Join([i \in 1..Len(s) |-> UpperChar(CharAt(s, i))], "")

\* the order of the characters the model's texts are compared by
\* (code-unit order on the characters that occur in dates and codes)
CharOrder ==
    <<"-", ".", "/", "0", "1", "2", "3", "4", "5", "6", "7", "8", "9",
      "A", "B", "C", "D", "E", "F", "G", "H", "I", "J", "K", "L", "M",
      "N", "O", "P", "Q", "R", "S", "T", "U", "V", "W", "X", "Y", "Z">>

CharCode(c) ==
    IF \E i \in DOMAIN CharOrder : CharOrder[i] = c
    THEN CHOOSE i \in DOMAIN CharOrder : CharOrder[i] = c
    ELSE 0

\* a and b agree before position i: is a < b decided from position i on
RECURSIVE LessFrom(_, _, _)
LessFrom(a, b, i) ==
    IF i > Len(b) THEN FALSE
    ELSE IF i > Len(a) THEN TRUE
    ELSE LET x == CharCode(CharAt(a, i))
             y == CharCode(CharAt(b, i))
         IN  IF x # y THEN x < y ELSE LessFrom(a, b, i + 1)

\* a < b in the default (code-unit) order of Array.prototype.sort
StrLess(a, b) == LessFrom(a, b, 1)

(***************************************************************************)
(* formatter.ts: truncation                                                *)
(***************************************************************************)
MarkdownNotice ==
    "\n\n---\n\n**Note:** Response was truncated due to size limit ("
    \o NatStr(CHARACTER_LIMIT) \o " characters). "
    \o "To see more data, try:\n"
    \o "- Narrowing the date range\n"
    \o "- Filtering with the 'symbols' parameter\n"
    \o "- Using pagination parameters\n"

JsonNotice == "\n\n[TRUNCATED: Response exceeded character limit]"

truncationMessage(format) ==
    IF format = MARKDOWN THEN MarkdownNotice ELSE JsonNotice

\* String.prototype.substring(0, n)
Prefix(content, n) ==
    IF Len(content) <= n THEN content ELSE SubSeq(content, 1, n)

\* a cut that leaves room for the notice: not what the code does
truncateWithinLimit(content, format) ==
    IF Len(content) <= CHARACTER_LIMIT
    THEN [content |-> content, meta |-> [truncated |-> FALSE]]
    ELSE [content |->
              Prefix(content, CHARACTER_LIMIT - Len(truncationMessage(format)))
              \o truncationMessage(format),
          meta |-> [truncated |-> TRUE,
                    truncation_message |->
                        "Response exceeded character limit and was truncated",
                    original_length |-> Len(content)]]

\* the notice of the other format: not what the code does
truncateSwappedNotice(content, format) ==
    IF Len(content) <= CHARACTER_LIMIT
    THEN [content |-> content, meta |-> [truncated |-> FALSE]]
    ELSE [content |->
              Prefix(content, CHARACTER_LIMIT)
              \o truncationMessage(IF format = MARKDOWN THEN JSON ELSE MARKDOWN),
          meta |-> [truncated |-> TRUE,
                    truncation_message |->
                        "Response exceeded character limit and was truncated",
                    original_length |-> Len(content)]]

truncateIfNeeded(content, format) ==
    IF Len(content) <= CHARACTER_LIMIT
    THEN [content |-> content, meta |-> [truncated |-> FALSE]]
    ELSE [content |->
              Prefix(content, CHARACTER_LIMIT) \o truncationMessage(format),
          meta |-> [truncated |-> TRUE,
                    truncation_message |->
                        "Response exceeded character limit and was truncated",
                    original_length |-> Len(content)]]

(***************************************************************************)
(* JavaScript values: tagged records.  An object is its own-property list  *)
(* in insertion order.                                                     *)
(***************************************************************************)
JUndefined == [t |-> "undefined"]

JNaN == [t |-> "nan"]

JStr(s) == [t |-> "string", s |-> s]

\* the number m / 10^e
JNum(m, e) == [t |-> "number", m |-> m, e |-> e]

JArr(items) == [t |-> "array", items |-> items]

JObj(kv) == [t |-> "object", kv |-> kv]

Prop(k, v) == [k |-> k, v |-> v]

HasKey(obj, k) == \E i \in DOMAIN obj.kv : obj.kv[i].k = k

\* obj[k]: the property's value, undefined when absent
Get(obj, k) ==
    IF HasKey(obj, k)
    THEN obj.kv[CHOOSE i \in DOMAIN obj.kv : obj.kv[i].k = k].v
    ELSE JUndefined

\* Object.keys
Keys(obj) == [i \in DOMAIN obj.kv |-> obj.kv[i].k]

(***************************************************************************)
(* Number to text                                                          *)
(***************************************************************************)
\* m / 10^e without trailing fractional zeros
RECURSIVE Normalize(_)
Normalize(x) ==
    IF x.e > 0 /\ x.m % 10 = 0
    THEN Normalize(JNum(x.m \div 10, x.e - 1))
    ELSE x

Abs(i) == IF i < 0 THEN -i ELSE i

\* m / 10^e written with all e fractional digits
Plain(m, e) ==
    (IF m < 0 THEN "-" ELSE "")
    \o NatStr(Abs(m) \div Pow10(e))
    \o (IF e = 0 THEN "" ELSE "." \o PadNat(Abs(m) % Pow10(e), e))

\* Number::toString: the shortest decimal (values the model uses are >= 1e-6)
NumberToString(x) == LET n == Normalize(x) IN Plain(n.m, n.e)

\* Number.prototype.toFixed(f): the nearest multiple of 10^-f, the larger on a tie
toFixed(x, f) ==
    IF x.e <= f
    THEN Plain(x.m * Pow10(f - x.e), f)
    ELSE LET d == Pow10(x.e - f)
             q == Abs(x.m) \div d
             r == Abs(x.m) % d
             up == IF x.m >= 0 THEN 2 * r >= d ELSE 2 * r > d
             n == IF up THEN q + 1 ELSE q
         IN  (IF x.m < 0 /\ n > 0 THEN "-" ELSE "") \o Plain(n, f)

\* the sum in place of the product: not what the code does
TimesAdds(a, b) == JNum(a.m * Pow10(b.e) + b.m * Pow10(a.e), a.e + b.e)

\* amount * rate on numbers
Times(a, b) == JNum(a.m * b.m, a.e + b.e)

(***************************************************************************)
(* formatter.ts: JSON rendering                                            *)
(***************************************************************************)
EscapeChar(c) ==
    IF c = "\"" THEN "\\\""
    ELSE IF c = "\\" THEN "\\\\"
    ELSE IF c = "\n" THEN "\\n"
    ELSE c

\* QuoteJSONString without the quotes, evaluated by halves
RECURSIVE Escape(_)
Escape(s) ==
    IF Len(s) <= 1 THEN EscapeChar(s)
    ELSE LET mid == Len(s) \div 2
         IN  Escape(SubSeq(s, 1, mid)) \o Escape(SubSeq(s, mid + 1, Len(s)))

\* the text between quotes as it is: not what the code does
QuoteUnescaped(s) == "\"" \o s \o "\""

Quote(s) == "\"" \o Escape(s) \o "\""

\* a property JSON.stringify writes: its value is not undefined
Serializable(v) == v.t # "undefined"

SelectProps(kv) == SelectSeq(kv, LAMBDA p : Serializable(p.v))

\* SerializeJSONProperty with gap "  " and the current indentation ind
RECURSIVE Stringify(_, _)
Stringify(v, ind) ==
    CASE v.t = "string" -> Quote(v.s)
      [] v.t = "number" -> NumberToString(v)
      [] v.t = "nan" -> "null"
      [] v.t = "undefined" -> "null"
      [] v.t = "array" ->
            IF Len(v.items) = 0 THEN "[]"
            ELSE "[\n" \o ind \o "  "
                 \o Join([i \in DOMAIN v.items |->
                             Stringify(v.items[i], ind \o "  ")],
                         ",\n" \o ind \o "  ")
                 \o "\n" \o ind \o "]"
      [] v.t = "object" ->
            LET ps == SelectProps(v.kv)
            IN  IF Len(ps) = 0 THEN "{}"
                ELSE "{\n" \o ind \o "  "
                     \o Join([i \in DOMAIN ps |->
                                 Quote(ps[i].k) \o ": "
                                 \o Stringify(ps[i].v, ind \o "  ")],
                             ",\n" \o ind \o "  ")
                     \o "\n" \o ind \o "}"

\* JSON.stringify(data, null, 2)
formatAsJSON(data) == Stringify(data, "")

(***************************************************************************)
(* formatter.ts: Markdown renderers.  A renderer either returns a text or  *)
(* throws (a TypeError on a value that has no such method or property).    *)
(***************************************************************************)
Ok(text) == [ok |-> TRUE, text |-> text]

Throws(message) == [ok |-> FALSE, message |-> message]

\* `${v}` in a template literal
ToText(v) ==
    CASE v.t = "string" -> v.s
      [] v.t = "number" -> NumberToString(v)
      [] v.t = "nan" -> "NaN"
      [] v.t = "undefined" -> "undefined"
      [] OTHER -> "[object Object]"

\* v.toFixed(f) on a value that is a number (NaN included)
ToFixedText(v, f) == IF v.t = "nan" THEN "NaN" ELSE toFixed(v, f)

IsNumber(v) == v.t \in {"number", "nan"}

IsObject(v) == v.t = "object"

formatRatesAsMarkdown(rates, base, date) ==
    IF ~IsObject(rates)
    THEN Throws("Cannot convert undefined or null to object")
    ELSE IF \E i \in DOMAIN rates.kv : ~IsNumber(rates.kv[i].v)
    THEN Throws("rate.toFixed is not a function")
    ELSE Ok("## Exchange Rates for " \o ToText(base) \o "\n\n"
            \o "**Date:** " \o ToText(date) \o "\n\n"
            \o "| Currency | Rate |\n"
            \o "|----------|------|\n"
            \o Join([i \in DOMAIN rates.kv |->
                        "| " \o rates.kv[i].k \o " | "
                        \o ToFixedText(rates.kv[i].v, 4) \o " |\n"],
                    ""))

\* the place of each element of s in sorted order: after the elements
\* that come before it (a stable sort keeps equal elements in their order)
Places(s) ==
    [i \in DOMAIN s |->
        1 + Cardinality({j \in DOMAIN s :
                            \/ StrLess(s[j], s[i])
                            \/ (j < i /\ ~StrLess(s[i], s[j]))})]

\* s rearranged by its places (the places are computed once)
Placed(s) ==
    CHOOSE sorted \in {[p \in DOMAIN s |-> s[CHOOSE i \in DOMAIN s : place[i] = p]] :
                          place \in {Places(s)}} : TRUE

\* the keys left in insertion order: not what the code does
SortKeepsOrder(s) == s

\* Array.prototype.sort() without a comparator (s is evaluated once)
Sort(s) == CHOOSE sorted \in {Placed(t) : t \in {s}} : TRUE

\* one table row of the time series: the cells of `symbols` for one date
SeriesRow(dateRates, date, symbols) ==
    "| " \o date \o " | "
    \o Join([j \in DOMAIN symbols |->
                IF Get(dateRates, symbols[j]).t # "undefined"
                THEN ToFixedText(Get(dateRates, symbols[j]), 4)
                ELSE "N/A"],
            " | ")
    \o " |\n"

formatTimeSeriesAsMarkdown(rates, base, symbols) ==
    IF ~IsObject(rates)
    THEN Throws("Cannot convert undefined or null to object")
    ELSE LET dates == Sort(Keys(rates))
         IN  IF \E i \in DOMAIN rates.kv : ~IsObject(rates.kv[i].v)
             THEN Throws("Cannot read properties of undefined")
             ELSE Ok("## Time Series Exchange Rates for " \o ToText(base) \o "\n\n"
                     \o "**Symbols:** " \o Join(symbols, ", ") \o "\n\n"
                     \o "| Date | " \o Join(symbols, " | ") \o " |\n"
                     \o "|------|"
                     \o Join([j \in DOMAIN symbols |-> "------"], "|") \o "|\n"
                     \o Join([i \in DOMAIN dates |->
                                 SeriesRow(Get(rates, dates[i]), dates[i], symbols)],
                             ""))

formatConversionAsMarkdown(from, to, amount, rate, result, date) ==
    IF ~IsNumber(rate)
    THEN Throws("Cannot read properties of undefined (reading 'toFixed')")
    ELSE Ok("## Currency Conversion\n\n"
            \o "**" \o ToFixedText(amount, 2) \o " " \o from \o " = "
            \o ToFixedText(result, 2) \o " " \o to \o "**\n\n"
            \o "- Exchange Rate: " \o ToFixedText(rate, 4) \o "\n"
            \o "- Date: " \o ToText(date) \o "\n")

formatCurrenciesAsMarkdown(currencies) ==
    LET codes == Sort(Keys(currencies))
    IN  Ok("## Available Currencies\n\n"
           \o "| Code | Name |\n"
           \o "|------|------|\n"
           \o Join([i \in DOMAIN codes |->
                       "| " \o codes[i] \o " | "
                       \o ToText(Get(currencies, codes[i])) \o " |\n"],
                   "")
           \o "\n**Total:** " \o NatStr(Len(codes)) \o " currencies\n")

\* formatResponse(data, format, formatter); the one formatter the handler
\* ever passes is () => content, which returns the text that data holds
formatResponse(data, format, hasFormatter) ==
    LET content ==
            IF format = JSON THEN formatAsJSON(data)
            ELSE IF hasFormatter THEN data.s
            ELSE formatAsJSON(data)
    IN  truncateIfNeeded(content, format).content

(***************************************************************************)
(* Dates: the pattern /^\d{4}-\d{2}-\d{2}$/ and new Date(text) as Node's   *)
(* engine parses a date-only text (UTC midnight; a month outside 1..12 or  *)
(* a day outside 1..31 gives an Invalid Date; a day past the month's end   *)
(* rolls over into the next month).                                        *)
(***************************************************************************)
MatchesDatePattern(s) ==
    /\ Len(s) = 10
    /\ \A i \in {1, 2, 3, 4, 6, 7, 9, 10} : CharAt(s, i) \in DigitChars
    /\ CharAt(s, 5) = "-"
    /\ CharAt(s, 8) = "-"

\* the digits s[i..j] as a number
RECURSIVE ParseNat(_, _, _)
ParseNat(s, i, j) ==
    IF i > j THEN 0 ELSE 10 * ParseNat(s, i, j - 1) + DigitVal(CharAt(s, j))

YearOf(s) == ParseNat(s, 1, 4)

MonthOf(s) == ParseNat(s, 6, 7)

DayOf(s) == ParseNat(s, 9, 10)

IsLeap(y) == (y % 4 = 0 /\ y % 100 # 0) \/ y % 400 = 0

\* leap years among the years 1..n (n may be negative)
LeapsThrough(n) == (n \div 4) - (n \div 100) + (n \div 400)

DaysBeforeMonth ==
    <<0, 31, 59, 90, 120, 151, 181, 212, 243, 273, 304, 334>>

\* MakeDay(y, m - 1, d): days since 1970-01-01 of day d counted from the
\* first of month m
MakeDay(y, m, d) ==
    365 * (y - 1970) + LeapsThrough(y - 1) - LeapsThrough(1969)
    + DaysBeforeMonth[m] + (IF m > 2 /\ IsLeap(y) THEN 1 ELSE 0)
    + (d - 1)

InvalidDate == [nan |-> TRUE, day |-> 0, ms |-> 0]

TimeValue(day, ms) == [nan |-> FALSE, day |-> day, ms |-> ms]

\* new Date(s) for a text s that matches the pattern
NewDate(s) ==
    IF MonthOf(s) \in 1..12 /\ DayOf(s) \in 1..31
    THEN TimeValue(MakeDay(YearOf(s), MonthOf(s), DayOf(s)), 0)
    ELSE InvalidDate

\* new Date(): the clock
Today == TimeValue(MakeDay(YearOf(now.date), MonthOf(now.date), DayOf(now.date)),
                   now.ms)

\* a > b on Date objects (ToNumber of each; false when either is NaN)
DateGreater(a, b) ==
    /\ ~a.nan
    /\ ~b.nan
    /\ (a.day > b.day \/ (a.day = b.day /\ a.ms > b.ms))

\* a >= b on Date objects
DateGreaterEq(a, b) ==
    /\ ~a.nan
    /\ ~b.nan
    /\ (a.day > b.day \/ (a.day = b.day /\ a.ms >= b.ms))

(***************************************************************************)
(* frankfurter-client.ts: the HTTP adapter                                 *)
(***************************************************************************)
\* what axios.get settles with
ReplyOk(data) == [kind |-> "ok", data |-> data]

\* an AxiosError: code, response (status, statusText) if one arrived,
\* request if one was sent
ReplyError(code, hasResponse, status, statusText, hasRequest, message) ==
    [kind |-> "axios_error", code |-> code, hasResponse |-> hasResponse,
     status |-> status, statusText |-> statusText,
     hasRequest |-> hasRequest, message |-> message]

\* the message of the Error handleApiError returns
handleApiError(error) ==
    IF error.code = "ECONNABORTED"
    THEN "Request timeout: The Frankfurter API did not respond within 10 seconds. Please try again."
    ELSE IF error.hasResponse
    THEN CASE error.status = 404 ->
                "The requested resource was not found. Please check your date range and currency codes."
           [] error.status = 429 ->
                "Rate limit exceeded. Please wait a moment before making more requests."
           [] error.status \in {500, 502, 503} ->
                "The Frankfurter API is currently experiencing issues. Please try again later."
           [] OTHER ->
                "API request failed with status " \o NatStr(error.status)
                \o ": " \o error.statusText
    ELSE IF error.hasRequest
    THEN "Unable to connect to the Frankfurter API. Please check your internet connection."
    ELSE "An unexpected error occurred: " \o error.message

\* the request makeApiRequest sends: array parameters joined with commas
HttpRequest(endpoint, params) ==
    [endpoint |-> endpoint,
     params |-> [i \in DOMAIN params |->
                    [k |-> params[i].k,
                     v |-> IF params[i].v.t = "array"
                           THEN Join([j \in DOMAIN params[i].v.items |->
                                         params[i].v.items[j].s], ",")
                           ELSE params[i].v.s]]]

(***************************************************************************)
(* index.ts: the tool input schemas (zod).  A schema is the list of its    *)
(* fields in declaration order; parsing yields the list of issues, each a  *)
(* path and a message, in the order zod reports them.                      *)
(***************************************************************************)
Field(name, kind, optional, message) ==
    [name |-> name, kind |-> kind, optional |-> optional, message |-> message]

FormatField ==
    Field("response_format", "format", TRUE, "")

ConvertCurrencySchema ==
    <<Field("from", "code", FALSE, "Currency code must be 3 characters"),
      Field("to", "code", FALSE, "Currency code must be 3 characters"),
      Field("amount", "positive", FALSE, "Amount must be positive"),
      Field("date", "date", TRUE, "Date must be in YYYY-MM-DD format"),
      FormatField>>

GetLatestRatesSchema ==
    <<Field("base", "code", TRUE, "Currency code must be 3 characters"),
      Field("symbols", "codes", TRUE, ""),
      FormatField>>

GetHistoricalRatesSchema ==
    <<Field("date", "date", FALSE, "Date must be in YYYY-MM-DD format"),
      Field("base", "code", TRUE, "Currency code must be 3 characters"),
      Field("symbols", "codes", TRUE, ""),
      FormatField>>

GetTimeSeriesSchema ==
    <<Field("start_date", "date", FALSE, "Start date must be in YYYY-MM-DD format"),
      Field("end_date", "date", FALSE, "End date must be in YYYY-MM-DD format"),
      Field("base", "code", TRUE, "Currency code must be 3 characters"),
      Field("symbols", "codes", TRUE, ""),
      FormatField>>

ListCurrenciesSchema == <<FormatField>>

Issue(path, message) == [path |-> path, message |-> message]

\* zod's name for the type of a value
ParsedType(v) == v.t

ExpectedType(kind) ==
    CASE kind \in {"code", "date", "format"} -> "string"
      [] kind = "positive" -> "number"
      [] kind = "codes" -> "array"

\* the issues of one element of a z.array(z.string().length(3))
ElementIssues(path, v) ==
    IF v.t # "string"
    THEN <<Issue(path, "Expected string, received " \o ParsedType(v))>>
    ELSE IF Len(v.s) # 3
    THEN <<Issue(path, "String must contain exactly 3 character(s)")>>
    ELSE <<>>

RECURSIVE Flatten(_)
Flatten(ss) == IF Len(ss) = 0 THEN <<>> ELSE Head(ss) \o Flatten(Tail(ss))

\* the issues of one declared field with value v (undefined when absent)
FieldIssues(f, v) ==
    IF v.t = "undefined"
    THEN IF f.optional THEN <<>> ELSE <<Issue(f.name, "Required")>>
    ELSE IF f.kind = "format"
    THEN IF v.t = "string" /\ v.s \in ResponseFormat THEN <<>>
         ELSE <<Issue(f.name,
                      "Invalid enum value. Expected 'json' | 'markdown', received '"
                      \o ToText(v) \o "'")>>
    ELSE IF v.t # ExpectedType(f.kind)
    THEN <<Issue(f.name,
                 "Expected " \o ExpectedType(f.kind)
                 \o ", received " \o ParsedType(v))>>
    ELSE CASE f.kind = "code" ->
                IF Len(v.s) = 3 THEN <<>> ELSE <<Issue(f.name, f.message)>>
           [] f.kind = "date" ->
                IF MatchesDatePattern(v.s) THEN <<>>
                ELSE <<Issue(f.name, f.message)>>
           [] f.kind = "positive" ->
                IF v.m > 0 THEN <<>> ELSE <<Issue(f.name, f.message)>>
           [] f.kind = "codes" ->
                Flatten([i \in DOMAIN v.items |->
                            ElementIssues(f.name \o "." \o NatStr(i - 1),
                                          v.items[i])])

\* the keys of args the schema does not declare, in args' own order
ExtraKeys(schema, args) ==
    SelectSeq(Keys(args),
              LAMBDA k : \A i \in DOMAIN schema : schema[i].name # k)

\* .strict(): one issue naming all unknown keys
StrictIssues(schema, args) ==
    LET extra == ExtraKeys(schema, args)
    IN  IF Len(extra) = 0 THEN <<>>
        ELSE <<Issue("",
                     "Unrecognized key(s) in object: "
                     \o Join([i \in DOMAIN extra |-> "'" \o extra[i] \o "'"],
                             ", "))>>

\* unknown keys stripped instead of reported: not what the code does
SchemaIssuesNotStrict(schema, args) ==
    IF args.t # "object"
    THEN <<Issue("", IF args.t = "undefined" THEN "Required"
                     ELSE "Expected object, received " \o ParsedType(args))>>
    ELSE Flatten([i \in DOMAIN schema |->
                     FieldIssues(schema[i], Get(args, schema[i].name))])

\* Schema.parse(args): the issues of the ZodError it throws (none: it returns)
SchemaIssues(schema, args) ==
    IF args.t # "object"
    THEN <<Issue("", IF args.t = "undefined" THEN "Required"
                     ELSE "Expected object, received " \o ParsedType(args))>>
    ELSE Flatten([i \in DOMAIN schema |->
                     FieldIssues(schema[i], Get(args, schema[i].name))])
         \o StrictIssues(schema, args)

\* the validated response_format: .default(ResponseFormat.MARKDOWN)
FormatOf(args) ==
    IF Get(args, "response_format").t = "undefined" THEN MARKDOWN
    ELSE Get(args, "response_format").s

\* error.errors.map((e) => `${e.path.join(".")}: ${e.message}`).join("; ")
ZodErrorText(issues) ==
    Join([i \in DOMAIN issues |-> issues[i].path \o ": " \o issues[i].message],
         "; ")

(***************************************************************************)
(* index.ts: the CallToolRequestSchema handler.  The body of its try block *)
(* runs to its one await (HandlerStart), then from the settled request to  *)
(* its end (HandlerResume); the catch clause turns what was thrown into a  *)
(* response (HandlerCatch).                                                *)
(***************************************************************************)
CONVERT == "frankfurter_convert_currency"

LATEST == "frankfurter_get_latest_rates"

HISTORICAL == "frankfurter_get_historical_rates"

TIME_SERIES == "frankfurter_get_time_series"

LIST == "frankfurter_list_currencies"

Tools == {CONVERT, LATEST, HISTORICAL, TIME_SERIES, LIST}

SchemaOf(name) ==
    CASE name = CONVERT -> ConvertCurrencySchema
      [] name = LATEST -> GetLatestRatesSchema
      [] name = HISTORICAL -> GetHistoricalRatesSchema
      [] name = TIME_SERIES -> GetTimeSeriesSchema
      [] name = LIST -> ListCurrenciesSchema

\* how a stretch of the handler body ends
Return(text, isError, content) ==
    [k |-> "return", text |-> text, isError |-> isError, content |-> content]

ThrowZod(issues) == [k |-> "throw", zod |-> TRUE, issues |-> issues]

ThrowError(message) == [k |-> "throw", zod |-> FALSE, message |-> message]

Await(requests) == [k |-> "await", requests |-> requests]

Given(args, name) == Get(args, name).t # "undefined"

\* symbols.map((s) => s.toUpperCase())
UpperSymbols(args) ==
    [i \in DOMAIN Get(args, "symbols").items |->
        toUpperCase(Get(args, "symbols").items[i].s)]

\* params of the rates tools: base and symbols, each only if given
RatesParams(args) ==
    (IF Given(args, "base")
     THEN <<Prop("base", JStr(toUpperCase(Get(args, "base").s)))>>
     ELSE <<>>)
    \o (IF Given(args, "symbols")
        THEN <<Prop("symbols",
                    JArr([i \in DOMAIN UpperSymbols(args) |->
                             JStr(UpperSymbols(args)[i])]))>>
        ELSE <<>>)

\* the request sent a second time: not what the code does
IssuedTwice(endpoint, params) ==
    <<HttpRequest(endpoint, params), HttpRequest(endpoint, params)>>

\* the requests one makeApiRequest call sends: one axios.get
Issued(endpoint, params) == <<HttpRequest(endpoint, params)>>

\* queryDate > today
FutureDate(date) == DateGreater(NewDate(date), Today)

\* startDate >= endDate
EmptyRange(start_date, end_date) ==
    DateGreaterEq(NewDate(start_date), NewDate(end_date))

\* the part of a case after a successful Schema.parse, up to the await
AfterParse(name, args) ==
    CASE name = CONVERT ->
            Await(Issued(IF Given(args, "date")
                         THEN "/" \o Get(args, "date").s
                         ELSE "/latest",
                         <<Prop("from", JStr(toUpperCase(Get(args, "from").s))),
                           Prop("to", JStr(toUpperCase(Get(args, "to").s)))>>))
      [] name = LATEST ->
            Await(Issued("/latest", RatesParams(args)))
      [] name = HISTORICAL ->
            IF FutureDate(Get(args, "date").s)
            THEN Return("Error: Date '" \o Get(args, "date").s
                        \o "' is in the future. For current rates, use frankfurter_get_latest_rates instead.",
                        TRUE, "")
            ELSE Await(Issued("/" \o Get(args, "date").s, RatesParams(args)))
      [] name = TIME_SERIES ->
            IF EmptyRange(Get(args, "start_date").s, Get(args, "end_date").s)
            THEN Return("Error: start_date '" \o Get(args, "start_date").s
                        \o "' must be before end_date '"
                        \o Get(args, "end_date").s \o "'.",
                        TRUE, "")
            ELSE Await(Issued("/" \o Get(args, "start_date").s \o ".."
                              \o Get(args, "end_date").s,
                              RatesParams(args)))
      [] name = LIST ->
            Await(Issued("/currencies", <<>>))

\* the try block from its start to the first await, return or throw
HandlerStart(name, args) ==
    IF name \notin Tools
    THEN Return("Error: Unknown tool '" \o name
                \o "'. Available tools: frankfurter_convert_currency, frankfurter_get_latest_rates, frankfurter_get_historical_rates, frankfurter_get_time_series, frankfurter_list_currencies",
                TRUE, "")
    ELSE IF Len(SchemaIssues(SchemaOf(name), args)) > 0
    THEN ThrowZod(SchemaIssues(SchemaOf(name), args))
    ELSE AfterParse(name, args)

\* what `await makeApiRequest(...)` evaluates to once axios.get has settled:
\* the payload, or the Error thrown (handleApiError's for an AxiosError,
\* the error itself otherwise)
Settled(rep) ==
    CASE rep.kind = "ok" -> [ok |-> TRUE, data |-> rep.data]
      [] rep.kind = "axios_error" -> [ok |-> FALSE, message |-> handleApiError(rep)]
      [] rep.kind = "error" -> [ok |-> FALSE, message |-> rep.message]

\* a text rendered by a case, returned as it is
Rendered(r) ==
    IF r.ok THEN Return(r.text, FALSE, r.text) ELSE ThrowError(r.message)

\* the keys of the last date's entry: not what the code does
LastKeys(rates) ==
    IF Len(rates.kv) = 0 \/ ~IsObject(rates.kv[Len(rates.kv)].v) THEN <<>>
    ELSE Keys(rates.kv[Len(rates.kv)].v)

\* Object.keys(Object.values(rates)[0] || {})
FirstKeys(rates) ==
    IF Len(rates.kv) = 0 \/ ~IsObject(rates.kv[1].v) THEN <<>>
    ELSE Keys(rates.kv[1].v)

\* case frankfurter_convert_currency, after the await
ConvertCurrency(args, data) ==
    IF ~IsObject(Get(data, "rates"))
    THEN ThrowError("Cannot read properties of undefined (reading '"
                    \o toUpperCase(Get(args, "to").s) \o "')")
    ELSE LET from == toUpperCase(Get(args, "from").s)
             to == toUpperCase(Get(args, "to").s)
             amount == Get(args, "amount")
             rate == Get(Get(data, "rates"), to)
             result == IF rate.t = "number" THEN Times(amount, rate) ELSE JNaN
         IN  IF FormatOf(args) = JSON
             THEN Rendered(Ok(formatAsJSON(JObj(
                      <<Prop("from", JStr(from)), Prop("to", JStr(to)),
                        Prop("amount", amount), Prop("rate", rate),
                        Prop("result", result),
                        Prop("date", Get(data, "date"))>>))))
             ELSE Rendered(formatConversionAsMarkdown(
                      from, to, amount, rate, result, Get(data, "date")))

\* cases frankfurter_get_latest_rates and frankfurter_get_historical_rates
RatesSnapshot(args, data) ==
    IF FormatOf(args) = JSON
    THEN Rendered(Ok(formatAsJSON(data)))
    ELSE Rendered(formatRatesAsMarkdown(
             Get(data, "rates"), Get(data, "base"), Get(data, "date")))

\* case frankfurter_get_time_series: the rendering, then formatResponse
TimeSeries(args, data) ==
    LET r == IF FormatOf(args) = JSON
             THEN Ok(formatAsJSON(data))
             ELSE IF ~Given(args, "symbols") /\ ~IsObject(Get(data, "rates"))
             THEN Throws("Cannot convert undefined or null to object")
             ELSE formatTimeSeriesAsMarkdown(
                      Get(data, "rates"), Get(data, "base"),
                      IF Given(args, "symbols") THEN UpperSymbols(args)
                      ELSE FirstKeys(Get(data, "rates")))
    IN  IF r.ok
        THEN Return(formatResponse(JStr(r.text), FormatOf(args),
                                   FormatOf(args) # MARKDOWN),
                    FALSE, r.text)
        ELSE ThrowError(r.message)

\* case frankfurter_list_currencies
ListCurrencies(args, data) ==
    IF FormatOf(args) = JSON
    THEN Rendered(Ok(formatAsJSON(data)))
    ELSE Rendered(formatCurrenciesAsMarkdown(data))

\* the try block from the settled request to its return or throw
HandlerResume(name, args, rep) ==
    IF ~Settled(rep).ok THEN ThrowError(Settled(rep).message)
    ELSE CASE name = CONVERT -> ConvertCurrency(args, rep.data)
           [] name = LATEST -> RatesSnapshot(args, rep.data)
           [] name = HISTORICAL -> RatesSnapshot(args, rep.data)
           [] name = TIME_SERIES -> TimeSeries(args, rep.data)
           [] name = LIST -> ListCurrencies(args, rep.data)

Envelope(text, isError) == [text |-> text, isError |-> isError]

\* the exception escapes the handler
Escapes == [thrown |-> TRUE]

\* a catch clause for ZodError alone: not what the code does
HandlerCatchZodOnly(end) ==
    IF end.k = "return" THEN Envelope(end.text, end.isError)
    ELSE IF end.zod
    THEN Envelope("Error: Invalid parameters - " \o ZodErrorText(end.issues), TRUE)
    ELSE Escapes

\* a catch clause that drops the error's message: not what the code does
HandlerCatchGeneric(end) ==
    IF end.k = "return" THEN Envelope(end.text, end.isError)
    ELSE IF end.zod
    THEN Envelope("Error: Invalid parameters - " \o ZodErrorText(end.issues), TRUE)
    ELSE Envelope("Error: An unexpected error occurred", TRUE)

\* the response of a call whose try block ended with `end`
HandlerCatch(end) ==
    IF end.k = "return" THEN Envelope(end.text, end.isError)
    ELSE IF end.zod
    THEN Envelope("Error: Invalid parameters - " \o ZodErrorText(end.issues), TRUE)
    ELSE Envelope("Error: " \o end.message, TRUE)

(***************************************************************************)
(* The inputs: tool names, arguments, the clock and the upstream's replies *)
(***************************************************************************)
\* how many unknown keys an argument object carries at most
MaxExtraKeys == 2

\* the dates and the symbols of the large time series
LargeDays == 90

LargeSymbols == 30

ToolNames == Tools \cup {"frankfurter_get_rates"}

Clock == {[date |-> "2026-11-04", ms |-> 0],
          [date |-> "2026-11-04", ms |-> 43200000]}

\* an object of the given properties, those that are undefined left out
Object(props) == JObj(SelectSeq(props, LAMBDA q : q.v.t # "undefined"))

ExtraKeyNames == <<"foo", "bar", "baz", "qux">>

ExtraProps(n) == [i \in 1..n |-> Prop(ExtraKeyNames[i], JNum(1, 0))]

FormatValues == {JUndefined, JStr(JSON), JStr(MARKDOWN), JStr("xml")}

CodeValues == {JUndefined, JStr("eur"), JStr("EU"), JNum(42, 0)}

SymbolsValues ==
    {JUndefined,
     JArr(<<>>),
     JArr(<<JStr("usd")>>),
     JArr(<<JStr("gbp"), JStr("USD")>>),
     JArr(<<JStr("US"), JStr("EURO")>>),
     JStr("usd")}

DateValues ==
    {JUndefined,
     JStr("2026-11-03"), JStr("2026-11-04"), JStr("2026-11-05"),
     JStr("2026-02-31"), JStr("2026-03-01"),
     JStr("2027-13-01"), JStr("2026-11-4"), JNum(20261104, 0)}

AmountValues == {JUndefined, JNum(100, 0), JNum(250, 2), JNum(0, 0), JStr("100")}

ConvertArgs ==
    {Object(<<Prop("from", f), Prop("to", t), Prop("amount", a),
              Prop("date", d), Prop("response_format", r)>> \o ExtraProps(n)) :
        f \in CodeValues, t \in {JStr("usd"), JStr("US")}, a \in AmountValues,
        d \in {JUndefined, JStr("2026-11-03"), JStr("2026/11/03")},
        r \in FormatValues, n \in {0}}
    \cup
    {Object(<<Prop("from", f), Prop("to", JStr("usd")), Prop("amount", JNum(100, 0))>>
            \o ExtraProps(n)) :
        f \in CodeValues, n \in 1..MaxExtraKeys}

LatestArgs ==
    {Object(<<Prop("base", b), Prop("symbols", s), Prop("response_format", r)>>
            \o ExtraProps(n)) :
        b \in CodeValues, s \in SymbolsValues, r \in FormatValues,
        n \in 0..MaxExtraKeys}

HistoricalArgs ==
    {Object(<<Prop("date", d), Prop("base", b), Prop("symbols", s),
              Prop("response_format", r)>> \o ExtraProps(n)) :
        d \in DateValues, b \in {JUndefined, JStr("EU")},
        s \in {JUndefined, JArr(<<JStr("usd")>>), JArr(<<JStr("US"), JStr("EURO")>>)},
        r \in FormatValues, n \in {0}}
    \cup
    {Object(<<Prop("date", d)>> \o ExtraProps(n)) :
        d \in DateValues, n \in 1..MaxExtraKeys}

TimeSeriesArgs ==
    {Object(<<Prop("start_date", a), Prop("end_date", b), Prop("symbols", s),
              Prop("response_format", r)>> \o ExtraProps(n)) :
        a \in DateValues, b \in DateValues,
        s \in {JUndefined, JArr(<<JStr("usd"), JStr("gbp")>>), JArr(<<JStr("US")>>)},
        r \in {JUndefined, JStr(JSON), JStr("xml")}, n \in {0}}
    \cup
    {Object(<<Prop("start_date", JStr("2026-11-03")), Prop("end_date", b),
              Prop("base", c)>> \o ExtraProps(n)) :
        b \in DateValues, c \in CodeValues, n \in 0..MaxExtraKeys}

ListArgs ==
    {Object(<<Prop("response_format", r)>> \o ExtraProps(n)) :
        r \in FormatValues, n \in 0..MaxExtraKeys}

\* request.params.arguments may be missing altogether
ArgsFor(name) ==
    {JUndefined} \cup
    (CASE name = CONVERT -> ConvertArgs
       [] name = LATEST -> LatestArgs
       [] name = HISTORICAL -> HistoricalArgs
       [] name = TIME_SERIES -> TimeSeriesArgs
       [] name = LIST -> ListArgs
       [] OTHER -> {Object(<<>>), Object(<<Prop("base", JStr("eur"))>>)})

LongText == Repeat("9", CHARACTER_LIMIT)

Rates(kv) == Prop("rates", JObj(kv))

SnapshotPayloads ==
    {JObj(<<Prop("amount", JNum(1, 0)), Prop("base", JStr("EUR")),
            Prop("date", JStr("2026-11-03")),
            Rates(<<Prop("USD", JNum(108, 2)), Prop("GBP", JNum(86345, 5))>>)>>),
     JObj(<<Prop("amount", JNum(1, 0)), Prop("base", JStr("EUR")),
            Prop("date", JStr("2026-11-03")),
            Rates(<<Prop("GBP", JNum(86345, 5))>>)>>),
     JObj(<<Prop("amount", JNum(1, 0)), Prop("base", JStr("EUR")),
            Prop("date", JStr("2026-11-03")), Rates(<<>>)>>),
     JObj(<<Prop("message", JStr("not found"))>>),
     JObj(<<Prop("amount", JNum(1, 0)), Prop("base", JStr("EUR")),
            Prop("date", JStr(LongText)),
            Rates(<<Prop("USD", JNum(108, 2))>>)>>)}

\* the i-th of the large series' dates: 28 days a month from 2026-03-01 on
LargeDate(i) ==
    "2026-" \o PadNat(((i - 1) \div 28) + 3, 2) \o "-" \o PadNat(((i - 1) % 28) + 1, 2)

\* the j-th of its symbols: AAA, AAB, ...
LargeSymbol(j) == "A" \o UpperLetters[((j - 1) \div 26) + 1] \o UpperLetters[((j - 1) % 26) + 1]

LargeSeries ==
    JObj(<<Prop("amount", JNum(1, 0)), Prop("base", JStr("EUR")),
           Prop("start_date", JStr(LargeDate(1))),
           Prop("end_date", JStr(LargeDate(LargeDays))),
           Rates([i \in 1..LargeDays |->
                     Prop(LargeDate(i),
                          JObj([j \in 1..LargeSymbols |->
                                   Prop(LargeSymbol(j), JNum(10000 + i + j, 4))]))])>>)

SeriesPayloads ==
    {JObj(<<Prop("amount", JNum(1, 0)), Prop("base", JStr("EUR")),
            Prop("start_date", JStr("2024-01-01")),
            Prop("end_date", JStr("2024-01-02")),
            Rates(<<Prop("2024-01-02", JObj(<<Prop("USD", JNum(11, 1))>>)),
                    Prop("2024-01-01", JObj(<<Prop("USD", JNum(109, 2)),
                                              Prop("GBP", JNum(86, 2))>>))>>)>>),
     JObj(<<Prop("amount", JNum(1, 0)), Prop("base", JStr("EUR")),
            Prop("start_date", JStr("2024-01-01")),
            Prop("end_date", JStr("2024-01-02")),
            Rates(<<Prop("2024-01-01", JObj(<<Prop("GBP", JNum(86, 2))>>)),
                    Prop("2024-01-02", JObj(<<Prop("USD", JNum(11, 1)),
                                              Prop("GBP", JNum(87, 2))>>))>>)>>),
     JObj(<<Prop("amount", JNum(1, 0)), Prop("base", JStr("EUR")),
            Prop("start_date", JStr("2024-01-06")),
            Prop("end_date", JStr("2024-01-07")), Rates(<<>>)>>),
     JObj(<<Prop("message", JStr("not found"))>>)}

CatalogPayloads ==
    {JObj(<<Prop("USD", JStr("US Dollar")), Prop("EUR", JStr("Euro"))>>),
     JObj(<<>>),
     JObj(<<Prop("USD", JStr("US Dollar")), Prop("XXX", JStr(LongText))>>)}

PayloadsFor(name) ==
    CASE name = TIME_SERIES -> SeriesPayloads
      [] name = LIST -> CatalogPayloads
      [] OTHER -> SnapshotPayloads

\* the replies with a non-2xx status, each with its reason phrase
StatusReplies ==
    {ReplyError("ERR_BAD_REQUEST", TRUE, 400, "Bad Request", TRUE, ""),
     ReplyError("ERR_BAD_REQUEST", TRUE, 404, "Not Found", TRUE, ""),
     ReplyError("ERR_BAD_REQUEST", TRUE, 422, "Unprocessable Entity", TRUE, ""),
     ReplyError("ERR_BAD_REQUEST", TRUE, 429, "Too Many Requests", TRUE, ""),
     ReplyError("ERR_BAD_RESPONSE", TRUE, 500, "Internal Server Error", TRUE, ""),
     ReplyError("ERR_BAD_RESPONSE", TRUE, 501, "Not Implemented", TRUE, ""),
     ReplyError("ERR_BAD_RESPONSE", TRUE, 502, "Bad Gateway", TRUE, ""),
     ReplyError("ERR_BAD_RESPONSE", TRUE, 503, "Service Unavailable", TRUE, ""),
     ReplyError("ERR_BAD_RESPONSE", TRUE, 504, "Gateway Timeout", TRUE, "")}

\* a timeout, no response, a request that was never sent, and an error
\* that is not an AxiosError
FailureReplies ==
    StatusReplies \cup
    {ReplyError("ECONNABORTED", FALSE, 0, "", TRUE, "timeout of 10000ms exceeded"),
     ReplyError("ERR_NETWORK", FALSE, 0, "", TRUE, "Network Error"),
     ReplyError("ERR_INVALID_URL", FALSE, 0, "", FALSE, "Invalid URL"),
     [kind |-> "error", message |-> "socket hang up"]}

\* the replies the upstream may give to a request: a failure, one of the
\* payloads of the endpoint's shape, and the large series for the range
\* that starts on its first date
RepliesTo(name, req) ==
    {ReplyOk(d) : d \in PayloadsFor(name)} \cup FailureReplies
    \cup (IF name = TIME_SERIES
              /\ SubSeq(req.endpoint, 2, 11) = LargeDate(1)
          THEN {ReplyOk(LargeSeries)} ELSE {})

(***************************************************************************)
(* The server: one tool call at a time                                     *)
(***************************************************************************)
NoRequest == [none |-> TRUE]

NoReply == [kind |-> "none"]

NoOutcome == [k |-> "none"]

NoResponse == [none |-> TRUE]

NoProbe == [fn |-> "none"]

Init ==
    /\ pc = "idle"
    /\ now \in Clock
    /\ request = NoRequest
    /\ upstream = <<>>
    /\ reply = NoReply
    /\ outcome = NoOutcome
    /\ response = NoResponse
    /\ probe = NoProbe

\* a tool call arrives and runs to its await, or to its end
CallTool(name, args) ==
    /\ pc = "idle"
    /\ request' = [name |-> name, args |-> args]
    /\ reply' = NoReply
    /\ LET end == HandlerStart(name, args)
       IN  IF end.k = "await"
           THEN /\ pc' = "awaiting"
                /\ upstream' = end.requests
                /\ outcome' = NoOutcome
                /\ response' = NoResponse
           ELSE /\ pc' = "done"
                /\ upstream' = <<>>
                /\ outcome' = end
                /\ response' = HandlerCatch(end)
    /\ UNCHANGED <<now, probe>>

\* axios.get settles and the suspended call runs to its end
Resume(rep) ==
    /\ pc = "awaiting"
    /\ reply' = rep
    /\ LET end == HandlerResume(request.name, request.args, rep)
       IN  /\ outcome' = end
           /\ response' = HandlerCatch(end)
    /\ pc' = "done"
    /\ UNCHANGED <<now, request, upstream, probe>>

\* the response leaves the server; nothing of the call is kept
Respond ==
    /\ pc = "done"
    /\ pc' = "idle"
    /\ request' = NoRequest
    /\ upstream' = <<>>
    /\ reply' = NoReply
    /\ outcome' = NoOutcome
    /\ response' = NoResponse
    /\ UNCHANGED <<now, probe>>

\* time passes between calls
Tick ==
    /\ pc = "idle"
    /\ now' \in Clock \ {now}
    /\ UNCHANGED <<pc, request, upstream, reply, outcome, response, probe>>

Next ==
    \/ \E name \in ToolNames : \E args \in ArgsFor(name) : CallTool(name, args)
    \/ /\ pc = "awaiting"
       /\ \E rep \in RepliesTo(request.name, upstream[1]) : Resume(rep)
    \/ Respond
    \/ Tick

Spec == Init /\ [][Next]_vars

(***************************************************************************)
(* truncateIfNeeded on its own: applied to a content, and then to the      *)
(* content it returned                                                     *)
(***************************************************************************)
\* the longest of the short contents
MaxShort == 2

\* how far the long contents' lengths lie on either side of CHARACTER_LIMIT
MaxExcess == 3

ContentUnits == <<"9", "| 1.0800 ", "  \"USD\": 1.08,\n">>

\* the content of n characters made of repetitions of a unit
ContentOf(unit, n) == Prefix(Repeat(unit, (n \div Len(unit)) + 1), n)

ContentLengths ==
    (0..MaxShort)
    \cup ((CHARACTER_LIMIT - MaxExcess)..(CHARACTER_LIMIT + MaxExcess))

InitTruncate ==
    /\ pc = "idle"
    /\ now = [date |-> "2026-11-04", ms |-> 0]
    /\ request = NoRequest
    /\ upstream = <<>>
    /\ reply = NoReply
    /\ outcome = NoOutcome
    /\ response = NoResponse
    /\ \E u \in DOMAIN ContentUnits : \E n \in ContentLengths :
       \E format \in ResponseFormat :
           probe = [fn |-> "content", content |-> ContentOf(ContentUnits[u], n),
                    format |-> format]

\* truncateIfNeeded(content, format)
Truncate ==
    /\ probe.fn = "content"
    /\ probe' = [fn |-> "truncated", content |-> probe.content,
                 format |-> probe.format,
                 first |-> truncateIfNeeded(probe.content, probe.format)]
    /\ UNCHANGED <<pc, now, request, upstream, reply, outcome, response>>

\* truncateIfNeeded(first.content, format)
TruncateAgain ==
    /\ probe.fn = "truncated"
    /\ probe' = [fn |-> "retruncated", content |-> probe.content,
                 format |-> probe.format, first |-> probe.first,
                 second |-> truncateIfNeeded(probe.first.content, probe.format)]
    /\ UNCHANGED <<pc, now, request, upstream, reply, outcome, response>>

NextTruncate == Truncate \/ TruncateAgain

SpecTruncate == InitTruncate /\ [][NextTruncate]_vars

(***************************************************************************)
(* Truncation as a function                                                *)
(***************************************************************************)
HasSuffix(s, t) ==
    Len(s) >= Len(t) /\ SubSeq(s, Len(s) - Len(t) + 1, Len(s)) = t

HasPrefix(s, t) == Len(s) >= Len(t) /\ SubSeq(s, 1, Len(t)) = t

\* C3: truncateIfNeeded returns a content of at most CHARACTER_LIMIT
\* characters unchanged, with truncated = false and no original_length;
\* of a longer content it returns the first CHARACTER_LIMIT characters
\* followed by the format's notice (the Markdown note, or the JSON
\* [TRUNCATED: ...] marker), CHARACTER_LIMIT plus the notice's length in
\* all, with truncated = true and original_length the content's length.
C3_TruncateMatchesReference ==
    probe.fn \in {"truncated", "retruncated"} =>
        LET c == probe.content
            out == probe.first
            notice == truncationMessage(probe.format)
        IN  IF Len(c) <= CHARACTER_LIMIT
            THEN /\ out.content = c
                 /\ out.meta.truncated = FALSE
                 /\ "original_length" \notin DOMAIN out.meta
            ELSE /\ SubSeq(out.content, 1, CHARACTER_LIMIT)
                        = SubSeq(c, 1, CHARACTER_LIMIT)
                 /\ HasSuffix(out.content, notice)
                 /\ Len(out.content) = CHARACTER_LIMIT + Len(notice)
                 /\ IF probe.format = JSON
                    THEN notice = "\n\n[TRUNCATED: Response exceeded character limit]"
                    ELSE HasPrefix(notice, "\n\n---\n\n**Note:** Response was truncated")
                 /\ out.meta.truncated = TRUE
                 /\ out.meta.original_length = Len(c)

\* a content one character over the limit has been truncated
C3_Witness ==
    /\ probe.fn = "truncated"
    /\ Len(probe.content) = CHARACTER_LIMIT + 1
    /\ probe.first.meta.truncated
    /\ probe.format = MARKDOWN

\* C4 as stated: a second truncation reports truncated = false whenever the
\* first one's output is at most CHARACTER_LIMIT plus the notice's length
\* long.
C4_SecondNeverTruncates ==
    (/\ probe.fn = "retruncated"
     /\ Len(probe.first.content)
            <= CHARACTER_LIMIT + Len(truncationMessage(probe.format)))
    => probe.second.meta.truncated = FALSE

\* C4 amended: a second truncation reports truncated = false exactly when
\* the first one's output is at most CHARACTER_LIMIT long, which is when the
\* first one did not truncate, and it then returns that output unchanged;
\* the output of a first truncation that did truncate is truncated again.
C4_SecondTruncatesIffFirstDid ==
    probe.fn = "retruncated" =>
        /\ probe.second.meta.truncated = (Len(probe.first.content) > CHARACTER_LIMIT)
        /\ (Len(probe.first.content) > CHARACTER_LIMIT)
               = (Len(probe.content) > CHARACTER_LIMIT)
        /\ (Len(probe.content) <= CHARACTER_LIMIT => probe.second = probe.first)

\* a content of exactly CHARACTER_LIMIT characters has gone through twice
C4_Witness ==
    /\ probe.fn = "retruncated"
    /\ Len(probe.content) = CHARACTER_LIMIT
    /\ ~probe.second.meta.truncated

(***************************************************************************)
(* The tool calls                                                          *)
(***************************************************************************)
InCall == pc \in {"awaiting", "done"}

\* what a declared field accepts, as the tools' input schemas describe it
Accepted(f, v) ==
    IF v.t = "undefined" THEN f.optional
    ELSE CASE f.kind = "code" -> v.t = "string" /\ Len(v.s) = 3
           [] f.kind = "date" -> v.t = "string" /\ MatchesDatePattern(v.s)
           [] f.kind = "positive" -> v.t = "number" /\ v.m > 0
           [] f.kind = "format" -> v.t = "string" /\ v.s \in ResponseFormat
           [] f.kind = "codes" ->
                /\ v.t = "array"
                /\ \A i \in DOMAIN v.items :
                       v.items[i].t = "string" /\ Len(v.items[i].s) = 3

Declared(schema, k) == \E i \in DOMAIN schema : schema[i].name = k

UnknownFields(schema, args) ==
    {i \in DOMAIN args.kv : ~Declared(schema, args.kv[i].k)}

FailingDeclared(schema, args) ==
    {i \in DOMAIN schema : ~Accepted(schema[i], Get(args, schema[i].name))}

\* the arguments of the call in progress pass its tool's schema
ValidCall ==
    /\ InCall
    /\ request.name \in Tools
    /\ request.args.t = "object"
    /\ FailingDeclared(SchemaOf(request.name), request.args) = {}
    /\ UnknownFields(SchemaOf(request.name), request.args) = {}

\* the call in progress returned a rendering and no error
Succeeded ==
    /\ pc = "done"
    /\ outcome.k = "return"
    /\ ~outcome.isError

\* C1: a successful call of any of the five tools whose rendered text is
\* longer than CHARACTER_LIMIT returns the truncated form of that text: its
\* first CHARACTER_LIMIT characters and then the format's notice.
C1_TruncationOnEveryTool ==
    (Succeeded /\ Len(outcome.content) > CHARACTER_LIMIT)
    => response.text = SubSeq(outcome.content, 1, CHARACTER_LIMIT)
                       \o truncationMessage(FormatOf(request.args))

\* C2: the text of every response is at most 25000 characters long.
C2_ResponseWithinLimit ==
    pc = "done" => Len(response.text) <= 25000

\* C5: a get_historical_rates call whose date passes the pattern and is later
\* than the current date ends in the error-flagged guidance response that
\* names the latest-rates tool, and sends nothing upstream.
C5_FutureDateRejected ==
    (/\ ValidCall
     /\ request.name = HISTORICAL
     /\ StrLess(now.date, Get(request.args, "date").s))
    => /\ pc = "done"
       /\ upstream = <<>>
       /\ response.isError
       /\ response.text
              = "Error: Date '" \o Get(request.args, "date").s
                \o "' is in the future. For current rates, use frankfurter_get_latest_rates instead."

\* C6: a get_time_series call whose dates pass the pattern and whose
\* start_date is equal to or later than its end_date ends in the
\* error-flagged guidance response and sends nothing upstream.
C6_EmptyRangeRejected ==
    (/\ ValidCall
     /\ request.name = TIME_SERIES
     /\ ~StrLess(Get(request.args, "start_date").s,
                 Get(request.args, "end_date").s))
    => /\ pc = "done"
       /\ upstream = <<>>
       /\ response.isError
       /\ response.text
              = "Error: start_date '" \o Get(request.args, "start_date").s
                \o "' must be before end_date '"
                \o Get(request.args, "end_date").s \o "'."

\* the call in progress carries arguments its tool's schema rejects
InvalidCall ==
    /\ InCall
    /\ request.name \in Tools
    /\ request.args.t = "object"
    /\ \/ FailingDeclared(SchemaOf(request.name), request.args) # {}
       \/ UnknownFields(SchemaOf(request.name), request.args) # {}

\* how many of the positions lo..hi of text start a "; "
RECURSIVE Separators(_, _, _)
Separators(text, lo, hi) ==
    IF lo > hi THEN 0
    ELSE IF lo = hi
    THEN IF SubSeq(text, lo, lo + 1) = "; " THEN 1 ELSE 0
    ELSE Separators(text, lo, (lo + hi) \div 2)
         + Separators(text, ((lo + hi) \div 2) + 1, hi)

\* the entries of an invalid-parameters text
Entries(text) == 1 + Separators(text, 1, Len(text) - 1)

InvalidParameters(text) == HasPrefix(text, "Error: Invalid parameters - ")

\* the elements of a symbols array that are not 3-character strings
BadElements(v) ==
    {i \in DOMAIN v.items : ~(v.items[i].t = "string" /\ Len(v.items[i].s) = 3)}

\* the declared fields that hold an array of symbols
SymbolArrays(schema, args) ==
    {i \in DOMAIN schema : /\ schema[i].kind = "codes"
                           /\ Get(args, schema[i].name).t = "array"}

\* the entries a rejected argument object is reported with: one for each
\* failing declared field, one for each failing element of a symbols array,
\* and one for all the unknown fields together
ReportedEntries(schema, args) ==
    Cardinality(FailingDeclared(schema, args) \ SymbolArrays(schema, args))
    + Cardinality(UNION {{<<i, j>> : j \in BadElements(Get(args, schema[i].name))} :
                            i \in SymbolArrays(schema, args)})
    + (IF UnknownFields(schema, args) = {} THEN 0 ELSE 1)

\* C7 as stated: rejected arguments end in an error-flagged invalid-parameters
\* text with one entry for each failing field, unknown extra fields
\* included, and nothing is sent upstream.
C7_OneEntryPerFailingField ==
    InvalidCall
    => /\ pc = "done"
       /\ upstream = <<>>
       /\ response.isError
       /\ InvalidParameters(response.text)
       /\ Entries(response.text)
              = Cardinality(FailingDeclared(SchemaOf(request.name), request.args))
                + Cardinality(UnknownFields(SchemaOf(request.name), request.args))

\* C7 amended: rejected arguments end in an error-flagged invalid-parameters
\* text whose entries, joined by "; ", are one for each validation issue:
\* one for each failing declared field (one for each failing element where
\* the field is a symbols array) and a single one for all the unknown extra
\* fields together; nothing is sent upstream.
C7_OneEntryPerIssue ==
    InvalidCall
    => /\ pc = "done"
       /\ upstream = <<>>
       /\ response.isError
       /\ InvalidParameters(response.text)
       /\ Entries(response.text)
              = ReportedEntries(SchemaOf(request.name), request.args)

\* a call with two unknown fields and a symbols array of two bad elements
\* has been answered
C7_Witness ==
    /\ pc = "done"
    /\ InvalidCall
    /\ request.name = LATEST
    /\ Cardinality(UnknownFields(SchemaOf(request.name), request.args)) = 2
    /\ Get(request.args, "symbols").t = "array"
    /\ Cardinality(BadElements(Get(request.args, "symbols"))) = 2

\* what makes a call a failure: an unknown tool, rejected arguments, a
\* guidance error, a request that did not succeed, or an exception
Failed ==
    \/ request.name \notin Tools
    \/ ~ValidCall
    \/ upstream = <<>>
    \/ reply.kind # "ok"
    \/ outcome.k = "throw"

\* C8: every call ends in a response of a text and an isError flag; every
\* failure (unknown tool, rejected arguments, guidance, timeout, status,
\* connectivity, an exception while rendering) has isError = true, and a
\* response with isError = false is the rendering of a successful reply to
\* a valid call of a known tool.
C8_AlwaysAnEnvelope ==
    pc = "done" =>
        /\ DOMAIN response = {"text", "isError"}
        /\ response.isError \in BOOLEAN
        /\ Len(response.text) > 0
        /\ (Failed => response.isError)
        /\ (~response.isError =>
               /\ ValidCall
               /\ Len(upstream) = 1
               /\ reply.kind = "ok"
               /\ outcome.k = "return"
               /\ response.text = outcome.text)

\* a renderer threw on the payload of a successful reply, and the call
\* ended in an error response
C8_Witness ==
    /\ pc = "done"
    /\ reply.kind = "ok"
    /\ outcome.k = "throw"
    /\ DOMAIN response = {"text", "isError"}
    /\ response.isError

\* C9: a call sends at most one request upstream; when that request fails
\* the call ends there with an error response and nothing more is sent.
C9_NoRetries ==
    [][/\ Len(upstream') <= 1
       /\ (pc = "awaiting" /\ pc' # "awaiting" /\ reply'.kind # "ok"
              => /\ pc' = "done"
                 /\ upstream' = upstream
                 /\ outcome'.k = "throw"
                 /\ response'.isError)
       /\ (pc = "done" => upstream' = <<>> \/ upstream' = upstream)]_vars

\* a call whose request timed out has ended, one request sent
C9_Witness ==
    /\ pc = "done"
    /\ reply.kind = "axios_error"
    /\ reply.code = "ECONNABORTED"
    /\ Len(upstream) = 1
    /\ response.isError

\* C10: for a reply with a non-2xx status the adapter's message goes by the
\* status family: 404 not found, 429 rate limited, every 5xx the service
\* having issues, any other status N the generic "status N: reason".
C10_MessageByStatusFamily ==
    (/\ pc = "done"
     /\ reply.kind = "axios_error"
     /\ reply.hasResponse
     /\ reply.code # "ECONNABORTED")
    => /\ outcome.k = "throw"
       /\ outcome.message =
              CASE reply.status = 404 ->
                     "The requested resource was not found. Please check your date range and currency codes."
                [] reply.status = 429 ->
                     "Rate limit exceeded. Please wait a moment before making more requests."
                [] reply.status \in 500..599 ->
                     "The Frankfurter API is currently experiencing issues. Please try again later."
                [] OTHER ->
                     "API request failed with status " \o NatStr(reply.status)
                     \o ": " \o reply.statusText

\* the adapter failed on the call's request: a timeout, a status, or no
\* response
AdapterFailed ==
    /\ pc = "done"
    /\ reply.kind = "axios_error"
    /\ (reply.code = "ECONNABORTED" \/ reply.hasResponse \/ reply.hasRequest)

\* C11 as stated: when the adapter fails, the text of the error response is
\* the adapter's message, character for character.
C11_AdapterMessageIsText ==
    AdapterFailed => response.isError /\ response.text = handleApiError(reply)

\* C11 amended: when the adapter fails, the text of the error response is
\* "Error: " followed by the adapter's message, character for character.
C11_AdapterMessageAfterPrefix ==
    AdapterFailed =>
        /\ response.isError
        /\ response.text = "Error: " \o handleApiError(reply)
        /\ SubSeq(response.text, 8, Len(response.text)) = handleApiError(reply)

\* a call whose request was answered 404 has ended
C11_Witness ==
    /\ AdapterFailed
    /\ reply.hasResponse
    /\ reply.status = 404
    /\ response.isError

\* C12: a successful get_time_series call whose rendering is within the
\* character limit returns exactly that rendering: the 2-space-indented
\* JSON of the payload in the json format, the time-series table in the
\* markdown format, and nothing is encoded between rendering and truncation.
C12_TimeSeriesTextIsRendering ==
    (/\ Succeeded
     /\ request.name = TIME_SERIES
     /\ Len(outcome.content) <= CHARACTER_LIMIT)
    => /\ response.text = outcome.content
       /\ (FormatOf(request.args) = JSON
              => response.text = formatAsJSON(reply.data))
       /\ (FormatOf(request.args) = MARKDOWN
              => HasPrefix(response.text, "## Time Series Exchange Rates for "))

(***************************************************************************)
(* formatTimeSeriesAsMarkdown on its own: a series whose dates come in any *)
(* order, rendered for a list of symbols                                   *)
(***************************************************************************)
\* the most dates a rendered series has
MaxDates == 3

SeriesDates == <<"2024-01-02", "2024-01-01", "2023-12-31", "2024-02-01">>

\* the orders in which up to MaxDates different dates can come
DateOrders ==
    {s \in UNION {[1..n -> DOMAIN SeriesDates] : n \in 0..MaxDates} :
        \A i, j \in DOMAIN s : i # j => s[i] # s[j]}

SymbolLists == {<<>>, <<"USD">>, <<"USD", "GBP">>, <<"GBP", "USD">>}

\* the rates of date d in the series of shape p: every symbol on every
\* date, or a symbol missing on some dates, or no symbol on the first date
RatesOn(p, d) ==
    CASE p = 1 -> JObj(<<Prop("USD", JNum(10800 + d, 4)), Prop("GBP", JNum(86 + d, 2))>>)
      [] p = 2 -> IF d % 2 = 1
                  THEN JObj(<<Prop("USD", JNum(11, 1))>>)
                  ELSE JObj(<<Prop("GBP", JNum(0, 0)), Prop("USD", JNum(109, 2))>>)
      [] p = 3 -> IF d = 1 THEN JObj(<<>>)
                  ELSE JObj(<<Prop("GBP", JNum(87654, 5))>>)

SeriesShapes == 1..3

InitSeries ==
    /\ pc = "idle"
    /\ now = [date |-> "2026-11-04", ms |-> 0]
    /\ request = NoRequest
    /\ upstream = <<>>
    /\ reply = NoReply
    /\ outcome = NoOutcome
    /\ response = NoResponse
    /\ \E order \in DateOrders : \E p \in SeriesShapes : \E symbols \in SymbolLists :
           probe = [fn |-> "series",
                    rates |-> JObj([i \in DOMAIN order |->
                                       Prop(SeriesDates[order[i]], RatesOn(p, order[i]))]),
                    symbols |-> symbols]

\* formatTimeSeriesAsMarkdown(rates, "EUR", symbols)
RenderSeries ==
    /\ probe.fn = "series"
    /\ probe' = [fn |-> "table", rates |-> probe.rates, symbols |-> probe.symbols,
                 out |-> formatTimeSeriesAsMarkdown(probe.rates, JStr("EUR"),
                                                    probe.symbols)]
    /\ UNCHANGED <<pc, now, request, upstream, reply, outcome, response>>

NextSeries == RenderSeries

SpecSeries == InitSeries /\ [][NextSeries]_vars

\* the positions of the character c in text
PositionsOf(text, c) == {i \in 1..Len(text) : CharAt(text, i) = c}

\* the k-th of the pieces that the character c cuts text into
Piece(text, c, k) ==
    LET at == PositionsOf(text, c)
        nth(n) == CHOOSE q \in at : Cardinality({r \in at : r < q}) = n - 1
        from == IF k = 1 THEN 1 ELSE nth(k - 1) + 1
        to == IF k > Cardinality(at) THEN Len(text) ELSE nth(k) - 1
    IN  SubSeq(text, from, to)

Pieces(text, c) == Cardinality(PositionsOf(text, c)) + 1

\* the rows of a rendered table: its lines after the six lines of heading
TableRows(text) ==
    [i \in 1..(Pieces(text, "\n") - 7) |-> Piece(text, "\n", 6 + i)]

\* the date keys of a series that come before the key k
EarlierKeys(rates, k) == {i \in DOMAIN rates.kv : StrLess(rates.kv[i].k, k)}

\* C13: the time-series table has one row for each date key of the series,
\* the rows in ascending order of the date keys whatever their order in the
\* series; in a row the cell of a symbol is the date's rate for it with four
\* decimals, or N/A where the date has no rate for the symbol.
C13_RowsSortedByDate ==
    probe.fn = "table" =>
        /\ probe.out.ok
        /\ LET rows == TableRows(probe.out.text)
               rates == probe.rates
               symbols == probe.symbols
           IN  /\ Len(rows) = Len(rates.kv)
               /\ \A i \in DOMAIN rates.kv :
                      LET row == rows[Cardinality(EarlierKeys(rates, rates.kv[i].k)) + 1]
                      IN  /\ Piece(row, "|", 2) = " " \o rates.kv[i].k \o " "
                          /\ \A j \in DOMAIN symbols :
                                 Piece(row, "|", 2 + j) =
                                     " " \o (IF HasKey(rates.kv[i].v, symbols[j])
                                             THEN toFixed(Get(rates.kv[i].v, symbols[j]), 4)
                                             ELSE "N/A") \o " "
               /\ \A i \in DOMAIN rows : i > 1 =>
                      StrLess(Piece(rows[i - 1], "|", 2), Piece(rows[i], "|", 2))

\* a series of three dates that come in descending order, one of them
\* without a rate for a requested symbol, has been rendered
C13_Witness ==
    /\ probe.fn = "table"
    /\ probe.out.ok
    /\ Len(probe.rates.kv) = 3
    /\ \A i \in 1..2 : StrLess(probe.rates.kv[i + 1].k, probe.rates.kv[i].k)
    /\ probe.symbols = <<"USD", "GBP">>
    /\ \E i \in 1..3 : ~HasKey(probe.rates.kv[i].v, "GBP")
    /\ Len(TableRows(probe.out.text)) = 3

\* a valid convert_currency call was answered with a payload that has a
\* rate for the upper-cased target code
Converted ==
    /\ ValidCall
    /\ pc = "done"
    /\ request.name = CONVERT
    /\ reply.kind = "ok"
    /\ IsObject(Get(reply.data, "rates"))
    /\ Get(Get(reply.data, "rates"), toUpperCase(Get(request.args, "to").s)).t = "number"

\* amount multiplied by rate, as a decimal: the digits and the scale
Product(amount, rate) == [t |-> "number", m |-> amount.m * rate.m, e |-> amount.e + rate.e]

\* C14: a valid convert_currency call asks the dated endpoint when a date is
\* given and the latest endpoint otherwise, with the upper-cased codes; when
\* the reply has a rate for the upper-cased target, the response reports
\* the upper-cased codes and, as the result, the amount multiplied by that
\* rate (in full in the json format, with two decimals in the markdown one).
C14_ConvertResult ==
    /\ (ValidCall /\ request.name = CONVERT) =>
           /\ Len(upstream) = 1
           /\ upstream[1].endpoint =
                  (IF HasKey(request.args, "date")
                   THEN "/" \o Get(request.args, "date").s ELSE "/latest")
           /\ upstream[1].params =
                  <<[k |-> "from", v |-> toUpperCase(Get(request.args, "from").s)],
                    [k |-> "to", v |-> toUpperCase(Get(request.args, "to").s)]>>
           /\ (Get(request.args, "from").s = "eur" => upstream[1].params[1].v = "EUR")
    /\ Converted =>
           LET from == toUpperCase(Get(request.args, "from").s)
               to == toUpperCase(Get(request.args, "to").s)
               amount == Get(request.args, "amount")
               rate == Get(Get(reply.data, "rates"), to)
               result == Product(amount, rate)
           IN  /\ ~response.isError
               /\ IF FormatOf(request.args) = JSON
                  THEN /\ Piece(response.text, "\n", 2) = "  \"from\": \"" \o from \o "\","
                       /\ Piece(response.text, "\n", 3) = "  \"to\": \"" \o to \o "\","
                       /\ Piece(response.text, "\n", 4)
                              = "  \"amount\": " \o NumberToString(amount) \o ","
                       /\ Piece(response.text, "\n", 5)
                              = "  \"rate\": " \o NumberToString(rate) \o ","
                       /\ Piece(response.text, "\n", 6)
                              = "  \"result\": " \o NumberToString(result) \o ","
                  ELSE /\ Piece(response.text, "\n", 3)
                              = "**" \o toFixed(amount, 2) \o " " \o from \o " = "
                                \o toFixed(result, 2) \o " " \o to \o "**"
                       /\ Piece(response.text, "\n", 5)
                              = "- Exchange Rate: " \o toFixed(rate, 4)

\* 2.5 EUR at a given date have been converted at 1.08 and reported in json
C14_Witness ==
    /\ Converted
    /\ HasKey(request.args, "date")
    /\ Get(request.args, "amount") = JNum(250, 2)
    /\ FormatOf(request.args) = JSON
    /\ Piece(response.text, "\n", 6) = "  \"result\": 2.7,"

(***************************************************************************)
(* JSON.parse, for the texts the JSON rendering can be read back from: a   *)
(* parse gives the value and the position after it, or fails               *)
(***************************************************************************)
ParseFails == [ok |-> FALSE]

Parsed(v, next) == [ok |-> TRUE, v |-> v, next |-> next]

JNull == [t |-> "null"]

\* the character of text at i; none past its end
At(text, i) == IF i >= 1 /\ i <= Len(text) THEN CharAt(text, i) ELSE ""

\* the first position from i on that holds no white space
RECURSIVE SkipSpace(_, _)
SkipSpace(text, i) ==
    IF At(text, i) \in {" ", "\n"} THEN SkipSpace(text, i + 1) ELSE i

\* how many backslashes stand in a row right before position i
RECURSIVE BackslashesBefore(_, _)
BackslashesBefore(text, i) ==
    IF At(text, i - 1) = "\\" THEN 1 + BackslashesBefore(text, i - 1) ELSE 0

\* the character at i of a string's body, unescaped: nothing for the
\* backslash that starts an escape, the escaped character after it
UnescapedAt(body, i) ==
    IF BackslashesBefore(body, i) % 2 = 1
    THEN (IF CharAt(body, i) = "n" THEN "\n" ELSE CharAt(body, i))
    ELSE IF CharAt(body, i) = "\\" THEN ""
    ELSE CharAt(body, i)

Unescape(body) ==
    JoinRange([i \in 1..Len(body) |-> UnescapedAt(body, i)], 1, Len(body), "")

\* the string that opens with the quote at i
ParseString(text, i) ==
    IF At(text, i) # "\"" THEN ParseFails
    ELSE CHOOSE out \in
           {IF closing = {} THEN ParseFails
            ELSE CHOOSE r \in
                   {IF \E k \in (i + 1)..(close - 1) : CharAt(text, k) = "\n"
                    THEN ParseFails
                    ELSE Parsed(JStr(Unescape(SubSeq(text, i + 1, close - 1))),
                                close + 1) :
                       close \in {CHOOSE j \in closing : \A k \in closing : j <= k}} : TRUE :
              closing \in {{j \in (i + 1)..Len(text) :
                              /\ CharAt(text, j) = "\""
                              /\ BackslashesBefore(text, j) % 2 = 0}}} : TRUE

\* the end of the run of sign, digits and point that starts at i
RECURSIVE NumberEnd(_, _)
NumberEnd(text, i) ==
    IF At(text, i) \in DigitChars \cup {"-", "."}
    THEN NumberEnd(text, i + 1) ELSE i

\* the digits of s with the point left out
DigitsOf(s) == SelectSeq([i \in 1..Len(s) |-> CharAt(s, i)], LAMBDA c : c \in DigitChars)

RECURSIVE DigitsValue(_)
DigitsValue(ds) ==
    IF Len(ds) = 0 THEN 0
    ELSE 10 * DigitsValue(SubSeq(ds, 1, Len(ds) - 1)) + DigitVal(ds[Len(ds)])

\* the number written at i: an optional sign, digits, an optional fraction
ParseNumber(text, i) ==
    CHOOSE out \in
      {LET s == SubSeq(text, i, end - 1)
           neg == At(s, 1) = "-"
           points == {k \in 1..Len(s) : CharAt(s, k) = "."}
           scale == IF points = {} THEN 0
                    ELSE Len(s) - (CHOOSE k \in points : TRUE)
           ok == /\ Cardinality(points) <= 1
                 /\ \A k \in 2..Len(s) : CharAt(s, k) # "-"
                 /\ Len(DigitsOf(s)) > 0
                 /\ At(s, Len(s)) # "."
       IN  IF ~ok THEN ParseFails
           ELSE Parsed(Normalize(JNum((IF neg THEN -1 ELSE 1) * DigitsValue(DigitsOf(s)),
                                      scale)),
                       end) :
         end \in {NumberEnd(text, i)}} : TRUE

RECURSIVE ParseValue(_, _)
RECURSIVE ParseElements(_, _, _)
RECURSIVE ParseMembers(_, _, _)

\* the elements of an array from i on, after those in acc
ParseElements(text, i, acc) ==
    CHOOSE out \in
      {IF ~r.ok THEN ParseFails
       ELSE CHOOSE o \in
              {IF At(text, m) = ","
               THEN ParseElements(text, m + 1, Append(acc, r.v))
               ELSE IF At(text, m) = "]"
               THEN Parsed(JArr(Append(acc, r.v)), m + 1)
               ELSE ParseFails : m \in {SkipSpace(text, r.next)}} : TRUE :
         r \in {ParseValue(text, i)}} : TRUE

\* the members of an object from i on, after those in acc
ParseMembers(text, i, acc) ==
    CHOOSE out \in
      {IF ~key.ok \/ At(text, SkipSpace(text, key.next)) # ":" THEN ParseFails
       ELSE CHOOSE o \in
              {IF ~r.ok THEN ParseFails
               ELSE CHOOSE o2 \in
                      {IF At(text, m) = ","
                       THEN ParseMembers(text, m + 1,
                                         Append(acc, Prop(key.v.s, r.v)))
                       ELSE IF At(text, m) = "}"
                       THEN Parsed(JObj(Append(acc, Prop(key.v.s, r.v))), m + 1)
                       ELSE ParseFails : m \in {SkipSpace(text, r.next)}} : TRUE :
                 r \in {ParseValue(text, SkipSpace(text, key.next) + 1)}} : TRUE :
         key \in {ParseString(text, SkipSpace(text, i))}} : TRUE

\* the value written from i on
ParseValue(text, i) ==
    CHOOSE out \in
      {CASE At(text, j) = "{" ->
                IF At(text, SkipSpace(text, j + 1)) = "}"
                THEN Parsed(JObj(<<>>), SkipSpace(text, j + 1) + 1)
                ELSE ParseMembers(text, j + 1, <<>>)
         [] At(text, j) = "[" ->
                IF At(text, SkipSpace(text, j + 1)) = "]"
                THEN Parsed(JArr(<<>>), SkipSpace(text, j + 1) + 1)
                ELSE ParseElements(text, j + 1, <<>>)
         [] At(text, j) = "\"" -> ParseString(text, j)
         [] At(text, j) \in DigitChars \cup {"-"} -> ParseNumber(text, j)
         [] j + 3 <= Len(text) /\ SubSeq(text, j, j + 3) = "null" -> Parsed(JNull, j + 4)
         [] OTHER -> ParseFails :
         j \in {SkipSpace(text, i)}} : TRUE

\* JSON.parse(text): the value, when the text is one value and white space
ParseJSON(text) ==
    CHOOSE out \in
      {IF r.ok /\ SkipSpace(text, r.next) = Len(text) + 1
       THEN [ok |-> TRUE, v |-> r.v] ELSE ParseFails :
         r \in {ParseValue(text, 1)}} : TRUE

(***************************************************************************)
(* The JSON rendering on its own: a payload is formatted as JSON and the   *)
(* text is parsed back                                                     *)
(***************************************************************************)
\* the most elements an array of the payloads has
MaxItems == 2

JsonScalars ==
    {JStr(""), JStr("EUR"), JStr("a \"b\" c"), JStr("x\\y\nz"),
     JNum(0, 0), JNum(108, 2), JNum(-5, 1), JNum(86345, 5), JNum(12345, 0)}

JsonKeys == {"base", "USD", "a \"b\"", "2024-01-02"}

JsonArrays ==
    {JArr(s) : s \in UNION {[1..n -> {JStr("USD"), JNum(108, 2), JArr(<<>>)}] :
                               n \in 0..MaxItems}}

\* objects of two different keys in either order
JsonObjects ==
    {JObj(<<Prop(k1, v1), Prop(k2, v2)>>) :
        k1 \in JsonKeys, k2 \in JsonKeys \ {"base"},
        v1 \in {JStr("EUR"), JNum(-5, 1)},
        v2 \in {JNum(108, 2), JObj(<<>>)}}
    \ {JObj(<<Prop(k, v1), Prop(k, v2)>>) :
          k \in JsonKeys, v1 \in {JStr("EUR"), JNum(-5, 1)},
          v2 \in {JNum(108, 2), JObj(<<>>)}}

\* payloads of the upstream's shapes, and one whose rendering is longer
\* than CHARACTER_LIMIT
JsonNested ==
    SnapshotPayloads \cup SeriesPayloads \cup CatalogPayloads
    \cup {JObj(<<Prop("rates", JObj(<<Prop("2024-01-02", a), Prop("2024-01-01", b)>>)),
                 Prop("symbols", a)>>) : a \in JsonArrays, b \in {JObj(<<>>)}}
    \cup {JStr(LongText)}

JsonPayloads == JsonScalars \cup JsonArrays \cup JsonObjects \cup JsonNested

InitJson ==
    /\ pc = "idle"
    /\ now = [date |-> "2026-11-04", ms |-> 0]
    /\ request = NoRequest
    /\ upstream = <<>>
    /\ reply = NoReply
    /\ outcome = NoOutcome
    /\ response = NoResponse
    /\ \E data \in JsonPayloads : probe = [fn |-> "payload", data |-> data]

\* formatResponse(data, ResponseFormat.JSON)
FormatJson ==
    /\ probe.fn = "payload"
    /\ probe' = [fn |-> "json", data |-> probe.data,
                 text |-> formatResponse(probe.data, JSON, FALSE)]
    /\ UNCHANGED <<pc, now, request, upstream, reply, outcome, response>>

\* JSON.parse of the formatted text
ParseJson ==
    /\ probe.fn = "json"
    /\ probe' = [fn |-> "parsed", data |-> probe.data, text |-> probe.text,
                 back |-> ParseJSON(probe.text)]
    /\ UNCHANGED <<pc, now, request, upstream, reply, outcome, response>>

NextJson == FormatJson \/ ParseJson

SpecJson == InitJson /\ [][NextJson]_vars

\* C15 as stated: for any payload, parsing the text that the JSON format
\* gives for it yields the payload again, its keys in their order and its
\* numbers unchanged.
C15_JsonRoundTrip ==
    probe.fn = "parsed" => probe.back.ok /\ probe.back.v = probe.data

\* C15 amended: for any payload whose JSON rendering is at most
\* CHARACTER_LIMIT characters long, parsing the text that the JSON format
\* gives for it yields the payload again, its keys in their order and its
\* numbers unchanged; a longer rendering is cut and followed by the notice,
\* and does not parse.
C15_JsonRoundTripWithinLimit ==
    probe.fn = "parsed" =>
        IF Len(formatAsJSON(probe.data)) <= CHARACTER_LIMIT
        THEN /\ probe.back.ok
             /\ probe.back.v = probe.data
             /\ (probe.data.t = "object" => Keys(probe.back.v) = Keys(probe.data))
        ELSE ~probe.back.ok

\* an object with a quoted key before a date key, a negative number and an
\* empty object has been read back
C15_Witness ==
    /\ probe.fn = "parsed"
    /\ probe.back.ok
    /\ probe.data = JObj(<<Prop("a \"b\"", JNum(-5, 1)), Prop("2024-01-02", JObj(<<>>))>>)
    /\ Keys(probe.back.v) = <<"a \"b\"", "2024-01-02">>

\* a get_time_series call has rendered its table
TableRendered ==
    /\ Succeeded
    /\ request.name = TIME_SERIES
    /\ FormatOf(request.args) = MARKDOWN

\* the columns a time-series table is to have: the requested symbols in
\* upper case, or the symbols of the series' first date
ColumnsWanted ==
    IF HasKey(request.args, "symbols")
    THEN [i \in DOMAIN Get(request.args, "symbols").items |->
             toUpperCase(Get(request.args, "symbols").items[i].s)]
    ELSE IF Len(Get(reply.data, "rates").kv) = 0 THEN <<>>
    ELSE [i \in DOMAIN Get(reply.data, "rates").kv[1].v.kv |->
             Get(reply.data, "rates").kv[1].v.kv[i].k]

\* C16: the columns of the time-series table are the requested symbols in
\* upper case and in request order when symbols are given; otherwise they
\* are the symbols of the first date of the series as the payload lists it
\* (none for an empty series), so a symbol of a later date only has no
\* column.
C16_TimeSeriesColumns ==
    TableRendered =>
        /\ Piece(outcome.content, "\n", 3)
               = "**Symbols:** " \o Join(ColumnsWanted, ", ")
        /\ Piece(outcome.content, "\n", 5)
               = "| Date | " \o Join(ColumnsWanted, " | ") \o " |"
        /\ Piece(outcome.content, "\n", 6)
               = "|------|" \o Join([i \in DOMAIN ColumnsWanted |-> "------"], "|") \o "|"
        /\ \A i \in 1..(Pieces(outcome.content, "\n") - 7) :
               Pieces(Piece(outcome.content, "\n", 6 + i), "|")
                   = (IF Len(ColumnsWanted) = 0 THEN 4 ELSE Len(ColumnsWanted) + 3)

\* a series whose first date has a rate for GBP only and whose second date
\* has one for USD too was rendered without a symbols argument: one column
C16_Witness ==
    /\ TableRendered
    /\ ~HasKey(request.args, "symbols")
    /\ Len(Get(reply.data, "rates").kv) = 2
    /\ HasKey(Get(reply.data, "rates").kv[2].v, "USD")
    /\ ~HasKey(Get(reply.data, "rates").kv[1].v, "USD")
    /\ Piece(outcome.content, "\n", 5) = "| Date | GBP |"

\* a valid convert_currency call was answered 200 with a payload whose rates
\* have no entry for the target currency in upper case
RateMissing ==
    /\ ValidCall
    /\ pc = "done"
    /\ request.name = CONVERT
    /\ reply.kind = "ok"
    /\ IsObject(reply.data)
    /\ IsObject(Get(reply.data, "rates"))
    /\ ~HasKey(Get(reply.data, "rates"), toUpperCase(Get(request.args, "to").s))

\* C17: convert_currency never returns a success response when the payload's
\* rates have no entry for the upper-cased target currency: in both formats
\* the call ends in an error-flagged response.
C17_MissingRateIsError ==
    RateMissing => response.isError

(***************************************************************************)
(* The server with several tool calls in progress.  A handler invocation   *)
(* is an async function: it runs without interruption to its await, and    *)
(* again from the settled request to its end; invocations interleave at    *)
(* the await only.  Each invocation has its own name, args and data        *)
(* (locals of the handler), and the module has no variable that is         *)
(* assigned after start-up.                                                *)
(***************************************************************************)
\* how many calls may be in progress at once
MaxCalls == 2

Slots == 1..MaxCalls

\* midday of one day and midnight of the next
Days ==
    {[date |-> "2026-11-03", ms |-> 43200000], [date |-> "2026-11-04", ms |-> 0]}

\* the calls that arrive: a conversion, a call whose date is the future on
\* the first of the days only, a time series and one that fails validation
Arrivals ==
    {[name |-> CONVERT,
      args |-> Object(<<Prop("from", JStr("eur")), Prop("to", JStr("usd")),
                        Prop("amount", JNum(100, 0))>>)],
     [name |-> HISTORICAL,
      args |-> Object(<<Prop("date", JStr("2026-11-04"))>>)],
     [name |-> TIME_SERIES,
      args |-> Object(<<Prop("start_date", JStr("2026-11-03")),
                        Prop("end_date", JStr("2026-11-04")),
                        Prop("response_format", JStr(JSON))>>)],
     [name |-> LATEST, args |-> Object(<<Prop("base", JStr("EU"))>>)]}

\* the replies to a suspended call: the short payloads with two entries
\* of rates, and a 404
Settlements(name, req) ==
    {rep \in RepliesTo(name, req) :
        CASE rep.kind = "ok" ->
                 /\ HasKey(rep.data, "rates")
                 /\ Len(Get(rep.data, "rates").kv) = 2
                 /\ (HasKey(rep.data, "date") => Len(Get(rep.data, "date").s) = 10)
          [] rep.kind = "axios_error" -> rep.status = 404
          [] OTHER -> FALSE}

NoCall ==
    [pc |-> "idle", request |-> NoRequest, upstream |-> <<>>, reply |-> NoReply,
     response |-> NoResponse, overlapped |-> FALSE]

\* one frame for all invocations, that of the first suspended call: not
\* what the code does
InvocationShared(calls, s) ==
    IF \E t \in Slots : calls[t].pc = "awaiting"
    THEN calls[CHOOSE t \in Slots :
                  /\ calls[t].pc = "awaiting"
                  /\ \A u \in Slots : calls[u].pc = "awaiting" => t <= u]
    ELSE calls[s]

\* the frame of an invocation: its own request and what it awaits
Invocation(calls, s) == calls[s]

InitCalls ==
    /\ pc = "idle"
    /\ now \in Days
    /\ request = NoRequest
    /\ upstream = <<>>
    /\ reply = NoReply
    /\ outcome = NoOutcome
    /\ response = NoResponse
    /\ probe = [fn |-> "calls", calls |-> [s \in Slots |-> NoCall]]

\* a call arrives in a free slot and runs to its await, or to its end;
\* `overlapped` remembers that another call was suspended when it arrived
Arrive(s, call) ==
    /\ probe.fn = "calls"
    /\ probe.calls[s].pc = "idle"
    /\ LET end == HandlerStart(call.name, call.args)
           among == \E t \in Slots : probe.calls[t].pc = "awaiting"
       IN  probe' = [probe EXCEPT !.calls[s] =
                        IF end.k = "await"
                        THEN [pc |-> "awaiting", request |-> call,
                              upstream |-> end.requests, reply |-> NoReply,
                              response |-> NoResponse, overlapped |-> among]
                        ELSE [pc |-> "done", request |-> call,
                              upstream |-> <<>>, reply |-> NoReply,
                              response |-> HandlerCatch(end), overlapped |-> among]]
    /\ UNCHANGED <<pc, now, request, upstream, reply, outcome, response>>

\* the request of one suspended call settles and that call runs to its end
Settle(s, rep) ==
    /\ probe.fn = "calls"
    /\ probe.calls[s].pc = "awaiting"
    /\ LET own == Invocation(probe.calls, s)
       IN  probe' = [probe EXCEPT !.calls[s] =
                        [pc |-> "done", request |-> own.request,
                         upstream |-> own.upstream, reply |-> rep,
                         response |-> HandlerCatch(HandlerResume(own.request.name,
                                                                 own.request.args, rep)),
                         overlapped |-> own.overlapped]]
    /\ UNCHANGED <<pc, now, request, upstream, reply, outcome, response>>

\* the response of a finished call leaves the server
Leave(s) ==
    /\ probe.fn = "calls"
    /\ probe.calls[s].pc = "done"
    /\ probe' = [probe EXCEPT !.calls[s] = NoCall]
    /\ UNCHANGED <<pc, now, request, upstream, reply, outcome, response>>

\* the day ends, whatever the calls are doing
Midnight ==
    /\ probe.fn = "calls"
    /\ now' \in {d \in Days : StrLess(now.date, d.date)}
    /\ UNCHANGED <<pc, request, upstream, reply, outcome, response, probe>>

NextCalls ==
    \/ \E s \in Slots : \E call \in Arrivals : Arrive(s, call)
    \/ \E s \in Slots :
          /\ probe.calls[s].pc = "awaiting"
          /\ \E rep \in Settlements(probe.calls[s].request.name,
                                    probe.calls[s].upstream[1]) : Settle(s, rep)
    \/ \E s \in Slots : Leave(s)
    \/ Midnight

SpecCalls == InitCalls /\ [][NextCalls]_vars

====
